---- MODULE Spec2Model ----
(***************************************************************************)
(* Rental Hunter: the scan orchestrator (main.py), the seen-listings store *)
(* (db.py), the Telegram notifier (notify.py), the address normalizer      *)
(* (models.py) and the three source adapters (scrapers/*.py).              *)
(*                                                                         *)
(* Text is modelled as a sequence of one-character strings, so that the    *)
(* regular-expression passes of normalize_address act on characters as     *)
(* they do in the source.                                                  *)
(***************************************************************************)
EXTENDS Integers, Sequences, FiniteSets, TLC

VARIABLES
  \* ---- main.py / db.py / notify.py / config.py ----
  pc,                 \* where the process is: "idle" (not running), "scrape",
                      \* "check", "notify", "mark", "returned", "sleep"
  loop_mode,          \* args.loop of this invocation
  TELEGRAM_CHAT_IDS,  \* config.TELEGRAM_CHAT_IDS, read from the environment
  seen_listings,      \* the seen_listings table: key -> row
  all_listings,       \* run_scan: the aggregate list
  new_count,          \* run_scan: the counter it returns
  scraper_idx,        \* run_scan: position in the scrapers list
  listing_idx,        \* run_scan: position in all_listings
  notify_ok,          \* run_scan: result of send_listing_with_photo
  now,                \* the clock read by datetime.utcnow()
  \* ---- history of the run, kept for the properties ----
  outcomes,           \* what each scraper call of this scan did
  store_at_start,     \* seen_listings when this scan started
  notified,           \* key -> number of Notifier invocations, ever
  sent_in_scan,       \* keys the Notifier was invoked for in this scan, in order
  failed_in_scan,     \* keys whose notification reported failure in this scan
  cut_short,          \* key -> scans stopped between its notify and record step
  scans,              \* number of scans started
  prev_scan,          \* the previous scan: its aggregate list and whether it completed
  \* ---- scrapers/*.py ----
  ad_source,          \* the adapter invoked
  ad_payload,         \* what the upstream site answers
  ad_result,          \* the list the adapter returned
  ad_trace,           \* whether it raised, the strategies it went through, its requests
  ad_pc,              \* "call" before the adapter ran, "done" after
  \* ---- models.normalize_address on its own ----
  nm_in,              \* two phrasings of one postal address
  nm_key,             \* their keys
  nm_pc,              \* "call" / "done"
  \* ---- one new listing through notify.py and back in run_scan ----
  nt_listing,         \* the new listing
  nt_chat_ids,        \* TELEGRAM_CHAT_IDS
  nt_answers,         \* how the sendPhoto and the sendMessage call end, per recipient
  nt_sent,            \* what send_listing_with_photo returned and the calls it made
  nt_seen,            \* the seen_listings table
  nt_pc,              \* "send", "mark", "done"
  \* ---- db.mark_as_seen on its own ----
  db_table,           \* the seen_listings table
  db_prev,            \* the table before the last call
  db_last,            \* the arguments of the last call and its time
  db_marked,          \* the keys mark_as_seen was called for
  \* ---- run_scan with its scrapers list in another order ----
  od_outcomes,        \* what each scraper call does, by source
  od_store,           \* the seen_listings table before the scan
  od_order,           \* the scrapers list
  od_result,          \* the count run_scan returns and the table after it
  od_pc               \* "call" / "done"

orchVars == <<pc, loop_mode, TELEGRAM_CHAT_IDS, seen_listings, all_listings,
              new_count, scraper_idx, listing_idx, notify_ok, now, outcomes,
              store_at_start, notified, sent_in_scan, failed_in_scan, cut_short,
              scans, prev_scan>>
adVars   == <<ad_source, ad_payload, ad_result, ad_trace, ad_pc>>
nmVars   == <<nm_in, nm_key, nm_pc>>
ntVars   == <<nt_listing, nt_chat_ids, nt_answers, nt_sent, nt_seen, nt_pc>>
dbVars   == <<db_table, db_prev, db_last, db_marked>>
odVars   == <<od_outcomes, od_store, od_order, od_result, od_pc>>
vars     == <<orchVars, adVars, nmVars, ntVars, dbVars, odVars>>

(***************************************************************************)
(* Python values that may be None, a number or a string carry their type.  *)
(***************************************************************************)
None == [t |-> "None"]
Num(n) == [t |-> "int", v |-> n]
Str(s) == [t |-> "str", v |-> s]
\* bool(x)
Truthy(x) ==
  CASE x.t = "None" -> FALSE
    [] x.t = "int" -> x.v # 0
    [] x.t = "str" -> x.v # ""

(***************************************************************************)
(* Characters and the str / re primitives normalize_address uses.          *)
(***************************************************************************)
UpperLetters ==
  <<"A","B","C","D","E","F","G","H","I","J","K","L","M",
    "N","O","P","Q","R","S","T","U","V","W","X","Y","Z">>
LowerLetters ==
  <<"a","b","c","d","e","f","g","h","i","j","k","l","m",
    "n","o","p","q","r","s","t","u","v","w","x","y","z">>
Digits == {"0","1","2","3","4","5","6","7","8","9"}

Range(s) == {s[i] : i \in 1..Len(s)}

\* \w : letters, digits and the underscore
IsWordChar(c) == c \in Range(UpperLetters) \cup Range(LowerLetters) \cup Digits \cup {"_"}
\* \s
IsSpace(c) == c \in {" ", "\t", "\n"}

\* str.lower() on one character
LowerChar(c) ==
  IF \E i \in 1..26 : UpperLetters[i] = c
    THEN LowerLetters[CHOOSE i \in 1..26 : UpperLetters[i] = c]
    ELSE c
Lower_none(s) == s
\* str.lower()
Lower(s) == [i \in 1..Len(s) |-> LowerChar(s[i])]

RECURSIVE LStrip(_)
LStrip(s) == IF s # <<>> /\ IsSpace(Head(s)) THEN LStrip(Tail(s)) ELSE s
RECURSIVE RStrip(_)
RStrip(s) ==
  IF s # <<>> /\ IsSpace(s[Len(s)]) THEN RStrip(SubSeq(s, 1, Len(s) - 1)) ELSE s
\* str.strip()
Strip(s) == RStrip(LStrip(s))

\* re.sub(r'\s+', ' ', s): every maximal run of whitespace becomes one space
RECURSIVE CollapseSpaces(_)
CollapseSpaces(s) ==
  IF s = <<>> THEN <<>>
  ELSE IF IsSpace(Head(s)) THEN <<" ">> \o CollapseSpaces(LStrip(s))
  ELSE <<Head(s)>> \o CollapseSpaces(Tail(s))

\* re.sub(r'[.,#]', '', s)
RemovePunctuation(s) == SelectSeq(s, LAMBDA c : c \notin {".", ",", "#"})

\* does pat occur in s at position i
MatchesAt(s, pat, i) ==
  /\ i + Len(pat) - 1 <= Len(s)
  /\ SubSeq(s, i, i + Len(pat) - 1) = pat

\* \b at the gap before position i of s (1 <= i <= Len(s)+1): exactly one of the
\* two neighbours is a word character
BoundaryAt(s, i) ==
  LET before == i > 1 /\ IsWordChar(s[i - 1])
      after  == i <= Len(s) /\ IsWordChar(s[i])
  IN  before # after

\* re.sub(r'\b' + pat + r'\b', rep, s), scanning left to right from position i
RECURSIVE SubWordFrom(_, _, _, _)
SubWordFrom(s, pat, rep, i) ==
  IF i > Len(s) THEN <<>>
  ELSE IF MatchesAt(s, pat, i) /\ BoundaryAt(s, i) /\ BoundaryAt(s, i + Len(pat))
    THEN rep \o SubWordFrom(s, pat, rep, i + Len(pat))
    ELSE <<s[i]>> \o SubWordFrom(s, pat, rep, i + 1)
SubWord(s, pat, rep) == SubWordFrom(s, pat, rep, 1)

\* re.sub(r'\b#', 'unit ', s)
RECURSIVE SubHashFrom(_, _)
SubHashFrom(s, i) ==
  IF i > Len(s) THEN <<>>
  ELSE IF s[i] = "#" /\ BoundaryAt(s, i)
    THEN <<"u","n","i","t"," ">> \o SubHashFrom(s, i + 1)
    ELSE <<s[i]>> \o SubHashFrom(s, i + 1)
SubHash(s) == SubHashFrom(s, 1)

\* for pattern, replacement in table.items(): full = re.sub(pattern, replacement, full)
RECURSIVE ApplyTable(_, _, _)
ApplyTable(s, table, k) ==
  IF k > Len(table) THEN s
  ELSE LET t == SubWord(s, table[k][1], table[k][2])
       IN  \* (the test makes TLC evaluate this pass before it starts the next)
           IF Len(t) >= 0 THEN ApplyTable(t, table, k + 1) ELSE t

directions ==
  << <<<<"n">>, <<"n", "o", "r", "t", "h">>>>,
     <<<<"s">>, <<"s", "o", "u", "t", "h">>>>,
     <<<<"e">>, <<"e", "a", "s", "t">>>>,
     <<<<"w">>, <<"w", "e", "s", "t">>>>,
     <<<<"n", "e">>, <<"n", "o", "r", "t", "h", "e", "a", "s", "t">>>>,
     <<<<"n", "w">>, <<"n", "o", "r", "t", "h", "w", "e", "s", "t">>>>,
     <<<<"s", "e">>, <<"s", "o", "u", "t", "h", "e", "a", "s", "t">>>>,
     <<<<"s", "w">>, <<"s", "o", "u", "t", "h", "w", "e", "s", "t">>>> >>

street_types ==
  << <<<<"s", "t">>, <<"s", "t", "r", "e", "e", "t">>>>,
     <<<<"s", "t", "r">>, <<"s", "t", "r", "e", "e", "t">>>>,
     <<<<"a", "v", "e">>, <<"a", "v", "e", "n", "u", "e">>>>,
     <<<<"a", "v">>, <<"a", "v", "e", "n", "u", "e">>>>,
     <<<<"b", "l", "v", "d">>, <<"b", "o", "u", "l", "e", "v", "a", "r", "d">>>>,
     <<<<"d", "r">>, <<"d", "r", "i", "v", "e">>>>,
     <<<<"r", "d">>, <<"r", "o", "a", "d">>>>,
     <<<<"l", "n">>, <<"l", "a", "n", "e">>>>,
     <<<<"c", "t">>, <<"c", "o", "u", "r", "t">>>>,
     <<<<"c", "i", "r">>, <<"c", "i", "r", "c", "l", "e">>>>,
     <<<<"p", "l">>, <<"p", "l", "a", "c", "e">>>>,
     <<<<"p", "k", "w", "y">>, <<"p", "a", "r", "k", "w", "a", "y">>>>,
     <<<<"p", "k", "y">>, <<"p", "a", "r", "k", "w", "a", "y">>>>,
     <<<<"h", "w", "y">>, <<"h", "i", "g", "h", "w", "a", "y">>>>,
     <<<<"t", "e", "r">>, <<"t", "e", "r", "r", "a", "c", "e">>>>,
     <<<<"t", "e", "r", "r">>, <<"t", "e", "r", "r", "a", "c", "e">>>>,
     <<<<"w", "a", "y">>, <<"w", "a", "y">>>> >>

\* the word entries of unit_types; its last entry, r'\b#', is SubHash
unit_types ==
  << <<<<"a", "p", "t">>, <<"u", "n", "i", "t">>>>,
     <<<<"a", "p", "a", "r", "t", "m", "e", "n", "t">>, <<"u", "n", "i", "t">>>>,
     <<<<"s", "t", "e">>, <<"u", "n", "i", "t">>>>,
     <<<<"s", "u", "i", "t", "e">>, <<"u", "n", "i", "t">>>>,
     <<<<"u", "n", "i", "t">>, <<"u", "n", "i", "t">>>> >>

\* f"{address} {city} {state} {zip_code}"
FullAddress(address, city, state, zip_code) ==
  address \o <<" ">> \o city \o <<" ">> \o state \o <<" ">> \o zip_code

normalize_address(address, city, state, zip_code) ==
  LET full0 == FullAddress(address, city, state, zip_code)
      full1 == Lower(full0)
      full2 == Strip(CollapseSpaces(full1))
      full3 == RemovePunctuation(full2)
      full4 == ApplyTable(full3, directions, 1)
      full5 == ApplyTable(full4, street_types, 1)
      full6 == SubHash(ApplyTable(full5, unit_types, 1))
  IN  Strip(CollapseSpaces(full6))


(***************************************************************************)
(* models.Listing and what the upstream sites list.                        *)
(***************************************************************************)
MaxScans == 2     \* scans started in one behaviour
MaxChats == 1     \* configured Telegram recipients

Home(address, price, bedrooms, sqft, url, photo_url) ==
  [address |-> address, city |-> <<"L", "a", "r", "g", "o">>, state |-> <<"F", "L">>,
   zip_code |-> <<"3", "3", "7", "7", "0">>, price |-> price, bedrooms |-> bedrooms,
   bathrooms |-> None, sqft |-> sqft, url |-> url, photo_url |-> photo_url]

\* The result page of each site.  Two houses are on the market; every site
\* phrases an address its own way, and zillow shows the first house at another
\* price than realtor does.
SitePage(source) ==
  CASE source = "realtor" ->
         << Home(<<"5", " ", "O", "a", "k", " ", "S", "t">>, 3000, Num(3), Num(1600), "u1", Str("p1")),
            Home(<<"9", " ", "E", "l", "m", " ", "A", "v", "e">>, 2500, Num(4), None, "u2", None) >>
    [] source = "zillow" ->
         << Home(<<"5", " ", "o", "a", "k", " ", "S", "t", "r", "e", "e", "t">>, 3200, None, None, "u3", None) >>
    [] source = "redfin" ->
         << Home(<<"9", " ", "E", "L", "M", " ", "A", "V", "E", ".">>, 2500, None, Num(1800), "u4", Str("p4")) >>

\* a house as the adapter `source` reports it
Listing(home, source) ==
  [address |-> home.address, city |-> home.city, state |-> home.state,
   zip_code |-> home.zip_code, price |-> home.price, bedrooms |-> home.bedrooms,
   bathrooms |-> home.bathrooms, sqft |-> home.sqft, url |-> home.url,
   source |-> source, photo_url |-> home.photo_url]

\* the entries of s at the positions in I, in the order of s
RECURSIVE Pick(_, _, _)
Pick(s, I, i) ==
  IF i > Len(s) THEN <<>>
  ELSE (IF i \in I THEN <<s[i]>> ELSE <<>>) \o Pick(s, I, i + 1)

\* what a call scraper_func() may do: raise, or return some of the page's
\* houses as Listings
ScraperOutcomes(source) ==
  {[raised |-> TRUE, listings |-> <<>>]} \cup
  {[raised |-> FALSE,
    listings |-> Pick([i \in 1..Len(SitePage(source)) |->
                         Listing(SitePage(source)[i], source)], I, 1)] :
     I \in SUBSET (1..Len(SitePage(source)))}

\* main.run_scan: the scrapers list, by source tag
scrapers == <<"realtor", "zillow", "redfin">>

AddressOf(l) == <<l.address, l.city, l.state, l.zip_code>>
Addresses ==
  UNION {{AddressOf(SitePage(s)[i]) : i \in 1..Len(SitePage(s))} :
           s \in {scrapers[j] : j \in 1..Len(scrapers)}}
\* normalize_address on every address of the pages, computed once
KeyTable == [a \in Addresses |-> normalize_address(a[1], a[2], a[3], a[4])]

\* Listing.normalized_address
normalized_address(listing) == KeyTable[AddressOf(listing)]

Keys == {KeyTable[a] : a \in Addresses}

(***************************************************************************)
(* db.py: the seen_listings table, a function from normalized_address      *)
(* (UNIQUE NOT NULL) to the rest of the row.                               *)
(***************************************************************************)
\* is_new_listing with the test on the fetched row lost
is_new_listing_always(table, key) == TRUE

is_new_listing(table, key) == key \notin DOMAIN table

\* mark_as_seen without its conn.commit(): the row is lost when the connection closes
mark_as_seen_uncommitted(table, key, original_address, price, source, url, t) == table

\* INSERT OR REPLACE in the place of the upsert: the row is written anew
mark_as_seen_replace(table, key, original_address, price, source, url, t) ==
  [k \in DOMAIN table \cup {key} |->
     IF k = key
       THEN [original_address |-> original_address, price |-> price,
             source |-> source, url |-> url,
             first_seen_at |-> t, last_seen_at |-> t]
       ELSE table[k]]

\* INSERT ... ON CONFLICT(normalized_address) DO UPDATE SET last_seen_at, price
mark_as_seen(table, key, original_address, price, source, url, t) ==
  IF key \in DOMAIN table
    THEN [table EXCEPT ![key].last_seen_at = t, ![key].price = price]
    ELSE [k \in DOMAIN table \cup {key} |->
            IF k = key
              THEN [original_address |-> original_address, price |-> price,
                    source |-> source, url |-> url,
                    first_seen_at |-> t, last_seen_at |-> t]
              ELSE table[k]]

(***************************************************************************)
(* notify.py.  `answers` says, per position in the chat id list, how the    *)
(* Telegram API call for that recipient ends.                              *)
(***************************************************************************)
ChatIdLists == {[i \in 1..n |-> i] : n \in 0..MaxChats}

\* how the Telegram API call for one recipient ends: result["ok"] is true,
\* result["ok"] is false, or urlopen / json.loads raises
Answers == {"ok", "not_ok", "HTTPError", "URLError", "Exception"}

\* per position in the chat id list, a call that is delivered or one that fails
Deliveries(chat_ids) == [1..Len(chat_ids) -> {"ok", "URLError"}]

\* the recipient loop left at the first recipient whose call does not succeed
RECURSIVE for_each_chat_id_break(_, _, _, _)
for_each_chat_id_break(chat_ids, answers, i, acc) ==
  IF i > Len(chat_ids) THEN acc
  ELSE IF answers[i] = "ok"
    THEN for_each_chat_id_break(chat_ids, answers, i + 1,
           [success_count |-> acc.success_count + 1,
            attempted |-> Append(acc.attempted, chat_ids[i])])
  ELSE [success_count |-> acc.success_count,
        attempted |-> Append(acc.attempted, chat_ids[i])]

\* for chat_id in TELEGRAM_CHAT_IDS: one request per recipient inside
\* try/except; only result["ok"] counts as a success, and every other answer
\* is printed before the loop goes on
RECURSIVE for_each_chat_id(_, _, _, _)
for_each_chat_id(chat_ids, answers, i, acc) ==
  IF i > Len(chat_ids) THEN acc
  ELSE for_each_chat_id(chat_ids, answers, i + 1,
         [success_count |-> IF answers[i] = "ok" THEN acc.success_count + 1
                           ELSE acc.success_count,
          attempted |-> Append(acc.attempted, chat_ids[i])])

\* a call of one of the two senders: whether it ran, what it returned and the
\* recipients it made a request for, in order
NotCalled == [called |-> FALSE, ok |-> FALSE, attempted |-> <<>>]

send_telegram_message(chat_ids, answers) ==
  IF chat_ids = <<>> THEN [called |-> TRUE, ok |-> FALSE, attempted |-> <<>>]
  ELSE LET r == for_each_chat_id(chat_ids, answers, 1,
                                 [success_count |-> 0, attempted |-> <<>>])
       IN  [called |-> TRUE, ok |-> r.success_count > 0, attempted |-> r.attempted]

send_listing_alert(chat_ids, answers) == send_telegram_message(chat_ids, answers)

send_photo_with_caption(chat_ids, answers) ==
  IF chat_ids = <<>> THEN [called |-> TRUE, ok |-> FALSE, attempted |-> <<>>]
  ELSE LET r == for_each_chat_id(chat_ids, answers, 1,
                                 [success_count |-> 0, attempted |-> <<>>])
       IN  [called |-> TRUE, ok |-> r.success_count > 0, attempted |-> r.attempted]

\* send_listing_with_photo without the text-only alert after a failed photo
send_listing_with_photo_no_fallback(listing, chat_ids, photo_answers, text_answers) ==
  IF Truthy(listing.photo_url)
    THEN LET photo == send_photo_with_caption(chat_ids, photo_answers)
         IN  [ok |-> photo.ok, photo |-> photo, text |-> NotCalled]
    ELSE LET text == send_listing_alert(chat_ids, text_answers)
         IN  [ok |-> text.ok, photo |-> NotCalled, text |-> text]

\* what send_listing_with_photo returns (ok), with the two calls it may make
send_listing_with_photo(listing, chat_ids, photo_answers, text_answers) ==
  LET photo == IF Truthy(listing.photo_url)
                 THEN send_photo_with_caption(chat_ids, photo_answers)
                 ELSE NotCalled
  IN  IF photo.called /\ photo.ok
        THEN [ok |-> TRUE, photo |-> photo, text |-> NotCalled]
        ELSE LET text == send_listing_alert(chat_ids, text_answers)
             IN  [ok |-> text.ok, photo |-> photo, text |-> text]

(***************************************************************************)
(* main.py: run_scan, run_loop, main.                                      *)
(***************************************************************************)
Running == pc \in {"scrape", "check", "notify", "mark"}
Stopped == pc \in {"start", "exited", "interrupted", "crashed"}

\* the listing the per-listing loop is at, and its key
CurListing == all_listings[listing_idx]
normalized == normalized_address(CurListing)

Bump(f, k) == [f EXCEPT ![k] = @ + 1]

\* run_scan, lines 28-40: a scan starts
BeginScan ==
  /\ scans < MaxScans
  /\ scans' = scans + 1
  /\ prev_scan' = [listings |-> all_listings,
                   completed |-> pc \in {"returned", "exited"}]
  /\ all_listings' = <<>>
  /\ new_count' = 0
  /\ scraper_idx' = 1
  /\ listing_idx' = 1
  /\ outcomes' = <<>>
  /\ store_at_start' = seen_listings
  /\ sent_in_scan' = <<>>
  /\ failed_in_scan' = {}
  /\ pc' = "scrape"
  /\ UNCHANGED <<seen_listings, notify_ok, now, notified, cut_short>>

\* main(): the process is started, with or without --loop
Main ==
  /\ Stopped
  /\ loop_mode' \in BOOLEAN
  /\ BeginScan
  /\ UNCHANGED <<TELEGRAM_CHAT_IDS, adVars, nmVars, ntVars, dbVars, odVars>>

\* the except branch throwing away what was aggregated so far
extend_listings_reset(listings, outcome) ==
  IF outcome.raised THEN <<>> ELSE listings \o outcome.listings

\* lines 43-48: the try/except around one scraper call
extend_listings(listings, outcome) ==
  IF outcome.raised THEN listings ELSE listings \o outcome.listings

\* run_scan, lines 42-48: one turn of the loop over the scrapers
Scrape ==
  /\ pc = "scrape"
  /\ \E outcome \in ScraperOutcomes(scrapers[scraper_idx]) :
       /\ all_listings' = extend_listings(all_listings, outcome)
       /\ outcomes' = Append(outcomes, outcome)
  /\ scraper_idx' = scraper_idx + 1
  /\ pc' = IF scraper_idx = Len(scrapers) THEN "check" ELSE "scrape"
  /\ UNCHANGED <<loop_mode, TELEGRAM_CHAT_IDS, seen_listings, new_count,
                 listing_idx, notify_ok, now, store_at_start, notified,
                 sent_in_scan, failed_in_scan, cut_short, scans, prev_scan,
                 adVars, nmVars, ntVars, dbVars, odVars>>

\* run_scan, lines 53-56: the next listing and its novelty check
Check ==
  /\ pc = "check"
  /\ listing_idx <= Len(all_listings)
  /\ IF is_new_listing(seen_listings, normalized)
       THEN pc' = "notify" /\ listing_idx' = listing_idx
       ELSE pc' = "check" /\ listing_idx' = listing_idx + 1
  /\ UNCHANGED <<loop_mode, TELEGRAM_CHAT_IDS, seen_listings, all_listings,
                 new_count, scraper_idx, notify_ok, now, outcomes,
                 store_at_start, notified, sent_in_scan, failed_in_scan,
                 cut_short, scans, prev_scan, adVars, nmVars, ntVars, dbVars, odVars>>

\* run_scan, lines 59-63: the Notifier is invoked for a new listing
Notify ==
  /\ pc = "notify"
  /\ \E photo_delivered, text_delivered \in Deliveries(TELEGRAM_CHAT_IDS) :
       notify_ok' = send_listing_with_photo(CurListing, TELEGRAM_CHAT_IDS,
                                            photo_delivered, text_delivered).ok
  /\ notified' = Bump(notified, normalized)
  /\ sent_in_scan' = Append(sent_in_scan, normalized)
  /\ failed_in_scan' = IF notify_ok' THEN failed_in_scan
                       ELSE failed_in_scan \cup {normalized}
  /\ pc' = "mark"
  /\ UNCHANGED <<loop_mode, TELEGRAM_CHAT_IDS, seen_listings, all_listings,
                 new_count, scraper_idx, listing_idx, now, outcomes,
                 store_at_start, cut_short, scans, prev_scan, adVars, nmVars, ntVars, dbVars, odVars>>

\* Mark with mark_as_seen moved under the "Notification sent!" branch
Mark_only_if_notified ==
  /\ pc = "mark"
  /\ seen_listings' = IF notify_ok
                        THEN mark_as_seen(seen_listings, normalized, CurListing.address,
                                          CurListing.price, CurListing.source,
                                          CurListing.url, now)
                        ELSE seen_listings
  /\ now' = now + 1
  /\ new_count' = new_count + 1
  /\ listing_idx' = listing_idx + 1
  /\ pc' = "check"
  /\ UNCHANGED <<loop_mode, TELEGRAM_CHAT_IDS, all_listings, scraper_idx,
                 notify_ok, outcomes, store_at_start, notified, sent_in_scan,
                 failed_in_scan, cut_short, scans, prev_scan, adVars, nmVars, ntVars, dbVars, odVars>>

\* Mark with new_count += 1 moved under the "Notification sent!" branch
Mark_count_notified ==
  /\ pc = "mark"
  /\ seen_listings' = mark_as_seen(seen_listings, normalized, CurListing.address,
                                   CurListing.price, CurListing.source,
                                   CurListing.url, now)
  /\ now' = now + 1
  /\ new_count' = IF notify_ok THEN new_count + 1 ELSE new_count
  /\ listing_idx' = listing_idx + 1
  /\ pc' = "check"
  /\ UNCHANGED <<loop_mode, TELEGRAM_CHAT_IDS, all_listings, scraper_idx,
                 notify_ok, outcomes, store_at_start, notified, sent_in_scan,
                 failed_in_scan, cut_short, scans, prev_scan, adVars, nmVars, ntVars, dbVars, odVars>>

\* run_scan, lines 66-73: the listing is recorded and counted
Mark ==
  /\ pc = "mark"
  /\ seen_listings' = mark_as_seen(seen_listings, normalized, CurListing.address,
                                   CurListing.price, CurListing.source,
                                   CurListing.url, now)
  /\ now' = now + 1
  /\ new_count' = new_count + 1
  /\ listing_idx' = listing_idx + 1
  /\ pc' = "check"
  /\ UNCHANGED <<loop_mode, TELEGRAM_CHAT_IDS, all_listings, scraper_idx,
                 notify_ok, outcomes, store_at_start, notified, sent_in_scan,
                 failed_in_scan, cut_short, scans, prev_scan, adVars, nmVars, ntVars, dbVars, odVars>>

\* run_scan, lines 75-79: the loop is over, new_count is returned
Return ==
  /\ pc = "check"
  /\ listing_idx > Len(all_listings)
  /\ pc' = "returned"
  /\ UNCHANGED <<loop_mode, TELEGRAM_CHAT_IDS, seen_listings, all_listings,
                 new_count, scraper_idx, listing_idx, notify_ok, now, outcomes,
                 store_at_start, notified, sent_in_scan, failed_in_scan,
                 cut_short, scans, prev_scan, adVars, nmVars, ntVars, dbVars, odVars>>

\* run_loop, lines 89-92: sleep, then the next scan
LoopAgain ==
  /\ pc = "returned"
  /\ loop_mode
  /\ BeginScan
  /\ UNCHANGED <<loop_mode, TELEGRAM_CHAT_IDS, adVars, nmVars, ntVars, dbVars, odVars>>

\* main, lines 170-173: a single scan ends the process
Exit ==
  /\ pc = "returned"
  /\ ~loop_mode
  /\ pc' = "exited"
  /\ UNCHANGED <<loop_mode, TELEGRAM_CHAT_IDS, seen_listings, all_listings,
                 new_count, scraper_idx, listing_idx, notify_ok, now, outcomes,
                 store_at_start, notified, sent_in_scan, failed_in_scan,
                 cut_short, scans, prev_scan, adVars, nmVars, ntVars, dbVars, odVars>>

\* Ctrl+C / a shutdown signal: KeyboardInterrupt is no Exception, so nothing in
\* run_scan catches it; run_loop (lines 93-95) exits, a single scan dies of it.
\* During the sleep of run_loop the scan before it has completed.
KeyboardInterrupt ==
  /\ Running \/ (pc = "returned" /\ loop_mode)
  /\ pc' = IF pc = "returned" THEN "exited" ELSE "interrupted"
  /\ cut_short' = IF pc = "mark" THEN Bump(cut_short, normalized) ELSE cut_short
  /\ UNCHANGED <<loop_mode, TELEGRAM_CHAT_IDS, seen_listings, all_listings,
                 new_count, scraper_idx, listing_idx, notify_ok, now, outcomes,
                 store_at_start, notified, sent_in_scan, failed_in_scan,
                 scans, prev_scan, adVars, nmVars, ntVars, dbVars, odVars>>

\* db.py: is_new_listing and mark_as_seen have try/finally and no except, so
\* an sqlite3.Error (database locked, disk full, file not writable) leaves them;
\* run_scan does not catch it around lines 53-72 and run_loop catches nothing
\* but KeyboardInterrupt: the process dies with the traceback.
SeenStoreError ==
  /\ (pc = "check" /\ listing_idx <= Len(all_listings)) \/ pc = "mark"
  /\ pc' = "crashed"
  /\ cut_short' = IF pc = "mark" THEN Bump(cut_short, normalized) ELSE cut_short
  /\ UNCHANGED <<loop_mode, TELEGRAM_CHAT_IDS, seen_listings, all_listings,
                 new_count, scraper_idx, listing_idx, notify_ok, now, outcomes,
                 store_at_start, notified, sent_in_scan, failed_in_scan,
                 scans, prev_scan, adVars, nmVars, ntVars, dbVars, odVars>>

\* the adapter and normalizer variables while the orchestrator runs
AdapterOff ==
  /\ ad_source = None /\ ad_payload = None /\ ad_result = None
  /\ ad_trace = None /\ ad_pc = "off"
NormalizerOff == nm_in = None /\ nm_key = None /\ nm_pc = "off"
NotifierOff ==
  /\ nt_listing = None /\ nt_chat_ids = None /\ nt_answers = None
  /\ nt_sent = None /\ nt_seen = None /\ nt_pc = "off"
StoreOff == db_table = None /\ db_prev = None /\ db_last = None /\ db_marked = None
OrderOff ==
  /\ od_outcomes = None /\ od_store = None /\ od_order = None
  /\ od_result = None /\ od_pc = "off"

OrchInit ==
  /\ pc = "start"
  /\ loop_mode = FALSE
  /\ TELEGRAM_CHAT_IDS \in ChatIdLists
  /\ seen_listings = <<>>
  /\ all_listings = <<>>
  /\ new_count = 0
  /\ scraper_idx = 1
  /\ listing_idx = 1
  /\ notify_ok = FALSE
  /\ now = 1
  /\ outcomes = <<>>
  /\ store_at_start = <<>>
  /\ notified = [k \in Keys |-> 0]
  /\ sent_in_scan = <<>>
  /\ failed_in_scan = {}
  /\ cut_short = [k \in Keys |-> 0]
  /\ scans = 0
  /\ prev_scan = [listings |-> <<>>, completed |-> FALSE]

Init == OrchInit /\ AdapterOff /\ NormalizerOff /\ NotifierOff /\ StoreOff /\ OrderOff

Next ==
  \/ Main
  \/ Scrape
  \/ Check
  \/ Notify
  \/ Mark
  \/ Return
  \/ LoopAgain
  \/ Exit
  \/ KeyboardInterrupt
  \/ SeenStoreError

Spec == Init /\ [][Next]_vars


(***************************************************************************)
(* scrapers/*.py.  What a site answers is modelled by its parts: whether   *)
(* the request succeeded, whether the embedded JSON is there and decodes,  *)
(* the raw records of its listing array, and the property cards of the     *)
(* markup.  A Listing is modelled by its address, city, price, sqft and    *)
(* source.                                                                 *)
(***************************************************************************)
MIN_SQFT == 1500
MAX_RENT == 7000
MaxRecords == 1   \* raw records in a listing array, and cards in a page

\* the sequences over S of length at most n
SeqsUpTo(S, n) == UNION {[1..k -> S] : k \in 0..n}

\* raw records: in range, too small, too dear, the two record-level defects,
\* a price that is zero or negative, a city that is not given or empty, and
\* a sqft that is a text and no number
RawRecords ==
  {[street |-> Str("5 Oak St"), city |-> Str("Largo"), price |-> p, sqft |-> q] :
     p \in {Num(6500), Num(9000)}, q \in {None, Num(900), Num(2400)}}
  \cup {[street |-> None, city |-> Str("Largo"), price |-> Num(6500), sqft |-> Num(2400)],
        [street |-> Str("5 Oak St"), city |-> Str("Largo"), price |-> None, sqft |-> Num(2400)],
        [street |-> Str("5 Oak St"), city |-> Str("Largo"), price |-> Num(0), sqft |-> Num(2400)],
        [street |-> Str("5 Oak St"), city |-> Str("Largo"), price |-> Num(-50), sqft |-> Num(2400)],
        [street |-> Str("5 Oak St"), city |-> None, price |-> Num(6500), sqft |-> Num(2400)],
        [street |-> Str("5 Oak St"), city |-> Str(""), price |-> Num(6500), sqft |-> Num(2400)],
        [street |-> Str("5 Oak St"), city |-> Str("Largo"), price |-> Num(6500), sqft |-> Str("n/a")]}

\* property cards: what the address pattern and the price pattern match in
\* one, among them a price of "$0" and an address of blanks
RawCards ==
  {[address |-> Str("5 Oak St"), price |-> Num(6500)],
   [address |-> Str("5 Oak St"), price |-> Num(9000)],
   [address |-> None, price |-> Num(6500)],
   [address |-> Str("5 Oak St"), price |-> None],
   [address |-> Str("5 Oak St"), price |-> Num(0)],
   [address |-> Str(" "), price |-> Num(6500)]}

\* str.strip() on the texts of the cards
strip(s) == IF s = " " THEN "" ELSE s

\* the answer to the GET of a search page: how the request ended, what the
\* embedded JSON is (not there, not decodable, decodable with another
\* structure on the way to the listing array, decodable with a number where
\* the listing array should be, or as expected), the raw records of the
\* listing array and the property cards of the markup
Pages ==
  {[response |-> e, embedded |-> "absent", records |-> <<>>, cards |-> <<>>] :
     e \in {"HTTPError", "URLError"}}
  \cup {[response |-> "200", embedded |-> e, records |-> <<>>, cards |-> c] :
          e \in {"absent", "malformed", "bad_path", "bad_list"},
          c \in SeqsUpTo(RawCards, MaxRecords)}
  \cup {[response |-> "200", embedded |-> "ok", records |-> r, cards |-> c] :
          r \in SeqsUpTo(RawRecords, MaxRecords), c \in SeqsUpTo(RawCards, MaxRecords)}

\* the answer of Redfin's GIS API
ApiAnswers ==
  {[response |-> e, body |-> "malformed", homes |-> <<>>] : e \in {"HTTPError", "URLError"}}
  \cup {[response |-> "200", body |-> b, homes |-> <<>>] :
          b \in {"malformed", "bad_path", "bad_list"}}
  \cup {[response |-> "200", body |-> "ok", homes |-> h] :
          h \in SeqsUpTo(RawRecords, MaxRecords)}

Payloads(source) ==
  IF source = "redfin"
    THEN {[api |-> a, page |-> pg] : a \in ApiAnswers, pg \in Pages}
    ELSE Pages

\* int(x) raises ValueError: x is a text that is not a numeral, as the texts
\* of the raw records are
int_raises(x) == x.t = "str"

\* Listing(address=..., city=..., price=int(price), sqft=int(sqft) if sqft else None, ...)
\* inside the parser's try: a ValueError of int(sqft) is caught by its
\* `except Exception`, which returns None
NewListing(street, city, price, sqft, source) ==
  IF Truthy(sqft) /\ int_raises(sqft) THEN None
  ELSE [address |-> street, city |-> city, price |-> price,
        sqft |-> IF Truthy(sqft) THEN sqft ELSE None, source |-> source]

\* the per-record loop left at the first record that gives no Listing
Parsed_until_defect(results) ==
  IF \A i \in 1..Len(results) : results[i] # None THEN results
  ELSE SubSeq(results, 1, (CHOOSE i \in 1..Len(results) :
                             /\ results[i] = None
                             /\ \A j \in 1..(i - 1) : results[j] # None) - 1)

\* the Listings among the results of a per-record parse, in order
Parsed(results) == SelectSeq(results, LAMBDA r : r # None)

\* a slice that takes every card
First20_all(cards) == cards
\* cards[:20]
First20(cards) == SubSeq(cards, 1, IF Len(cards) < 20 THEN Len(cards) ELSE 20)

\* How a call ends: it returns a list, or an exception leaves it.
Returns(listings) == [raised |-> FALSE, listings |-> listings]
Raises == [raised |-> TRUE, listings |-> <<>>]
\* an exception handler that lets the exception through
Caught_reraise(body, listings) == body
\* try: body / except Exception: print(...), after which the function goes
\* on to return `listings` as it stood when the exception was raised
Caught(body, listings) ==
  IF body.raised THEN [body EXCEPT !.raised = FALSE, !.listings = listings] ELSE body
\* what an entry point went through: the list the embedded payload yielded,
\* whether the markup scan ran, and the urlopen calls it made, in order, each
\* named by what it asks for
Trace(outcome, preferred, fallback, requests) ==
  [raised |-> outcome.raised, listings |-> outcome.listings,
   preferred |-> preferred, fallback |-> fallback, requests |-> requests]

\* ---- realtor.py ----
\* html is not None
realtor_fetch_page(page) == page.response = "200"

\* data is truthy
realtor_extract_next_data(page) == page.embedded \in {"ok", "bad_path", "bad_list"}

realtor_parse_property(prop) ==
  IF ~Truthy(prop.street) \/ ~Truthy(prop.city) THEN None
  ELSE IF ~Truthy(prop.price) THEN None
  ELSE NewListing(prop.street.v, prop.city.v, prop.price.v, prop.sqft, "realtor")

realtor_parse_next_data(page) ==
  Caught(IF page.embedded \in {"bad_path", "bad_list"} THEN Raises
         ELSE IF page.records = <<>> THEN Returns(<<>>)
         ELSE Returns(Parsed([i \in 1..Len(page.records) |->
                               realtor_parse_property(page.records[i])])),
         <<>>)

realtor_parse_card(card) ==
  IF card.address = None THEN None
  ELSE IF card.price = None THEN None
  ELSE NewListing(strip(card.address.v), "St Petersburg", card.price.v, None, "realtor")

realtor_parse_html_fallback(cards) ==
  Returns(Parsed([i \in 1..Len(First20(cards)) |-> realtor_parse_card(cards[i])]))

scrape_realtor(page) ==
  Caught(IF ~realtor_fetch_page(page) THEN Trace(Returns(<<>>), <<>>, FALSE, <<"page">>)
         ELSE IF realtor_extract_next_data(page)
           THEN LET r == realtor_parse_next_data(page)
                IN  Trace(r, r.listings, FALSE, <<"page">>)
         ELSE Trace(realtor_parse_html_fallback(page.cards), <<>>, TRUE, <<"page">>),
         <<>>)

\* ---- zillow.py ----
zillow_fetch_page(page) == page.response = "200"

\* what _extract_listing_data returns: None, the listing array, or the number
\* found where the array should be
zillow_extract_listing_data(page) ==
  IF page.embedded = "ok" /\ page.records # <<>>
    THEN [kind |-> "list", items |-> page.records]
  ELSE IF page.embedded = "bad_list" THEN [kind |-> "number", items |-> <<>>]
  ELSE [kind |-> "None", items |-> <<>>]

zillow_parse_single_listing(item) ==
  IF ~Truthy(item.street) THEN None
  ELSE IF ~Truthy(item.price) THEN None
  ELSE NewListing(item.street.v,
                  IF item.city = None THEN "St Petersburg" ELSE item.city.v,
                  item.price.v, item.sqft, "zillow")

\* `for item in data` raises TypeError on a number
zillow_parse_listings(data) ==
  IF data.kind = "number" THEN Raises
  ELSE Returns(Parsed([i \in 1..Len(data.items) |->
                        zillow_parse_single_listing(data.items[i])]))

zillow_parse_card(card) ==
  IF card.address = None THEN None
  ELSE IF card.price = None THEN None
  ELSE NewListing(strip(card.address.v), "St Petersburg", card.price.v, None, "zillow")

zillow_parse_html_fallback(cards) ==
  Returns(Parsed([i \in 1..Len(First20(cards)) |-> zillow_parse_card(cards[i])]))

scrape_zillow(page) ==
  Caught(IF ~zillow_fetch_page(page) THEN Trace(Returns(<<>>), <<>>, FALSE, <<"page">>)
         ELSE LET data == zillow_extract_listing_data(page)
              IN  IF data.kind # "None"
                    THEN LET r == zillow_parse_listings(data)
                         IN  Trace(r, r.listings, FALSE, <<"page">>)
                    ELSE Trace(zillow_parse_html_fallback(page.cards), <<>>, TRUE, <<"page">>),
         <<>>)

\* ---- redfin.py ----
\* data is truthy
redfin_fetch_api(api) == api.response = "200" /\ api.body # "malformed"

redfin_parse_home(home) ==
  IF ~Truthy(home.price) THEN None
  ELSE IF ~Truthy(home.street) THEN None
  ELSE NewListing(home.street.v,
                  IF home.city = None THEN "St Petersburg" ELSE home.city.v,
                  home.price.v, home.sqft, "redfin")

\* "Apply our filters": the two `continue` tests
redfin_passes_filters(listing) ==
  /\ ~(Truthy(listing.sqft) /\ listing.sqft.v < MIN_SQFT)
  /\ ~(listing.price > MAX_RENT)

redfin_parse_homes(homes) ==
  SelectSeq(Parsed([i \in 1..Len(homes) |-> redfin_parse_home(homes[i])]),
            redfin_passes_filters)

redfin_scrape_via_gis_api(api) ==
  Caught(IF ~redfin_fetch_api(api) THEN Returns(<<>>)
         ELSE IF api.body \in {"bad_path", "bad_list"} THEN Raises
         ELSE Returns(redfin_parse_homes(api.homes)),
         <<>>)

\* homes, the list _extract_homes_from_state returns
redfin_extract_homes_from_state(page) ==
  IF page.embedded = "ok" THEN page.records ELSE <<>>

redfin_parse_card(card) ==
  IF card.address = None THEN None
  ELSE IF card.price = None THEN None
  ELSE IF card.price.v > MAX_RENT THEN None
  ELSE NewListing(strip(card.address.v), "St Petersburg", card.price.v, None, "redfin")

redfin_parse_html_fallback(cards) ==
  Returns(Parsed([i \in 1..Len(First20(cards)) |-> redfin_parse_card(cards[i])]))

redfin_scrape_via_search_page(page) ==
  Caught(IF page.response # "200" THEN Trace(Raises, <<>>, FALSE, <<"page">>)
         ELSE LET listings == redfin_parse_homes(redfin_extract_homes_from_state(page))
              IN  IF listings = <<>>
                    THEN Trace(redfin_parse_html_fallback(page.cards), listings, TRUE, <<"page">>)
                    ELSE Trace(Returns(listings), listings, FALSE, <<"page">>),
         <<>>)

scrape_redfin(payload) ==
  Caught(LET api == redfin_scrape_via_gis_api(payload.api)
         IN  IF api.raised \/ api.listings # <<>>
               THEN Trace(api, <<>>, FALSE, <<"api">>)
             ELSE LET page == redfin_scrape_via_search_page(payload.page)
                  IN  [page EXCEPT !.requests = <<"api">> \o @],
         <<>>)

\* ---- one adapter call ----
Called(outcome) ==
  /\ ad_result' = outcome.listings
  /\ ad_trace' = [raised |-> outcome.raised, preferred |-> outcome.preferred,
                  fallback |-> outcome.fallback, requests |-> outcome.requests]
  /\ ad_pc' = "done"
  /\ UNCHANGED <<ad_source, ad_payload, orchVars, nmVars, ntVars, dbVars, odVars>>

ScrapeRealtor ==
  /\ ad_pc = "call" /\ ad_source = "realtor"
  /\ Called(scrape_realtor(ad_payload))

ScrapeZillow ==
  /\ ad_pc = "call" /\ ad_source = "zillow"
  /\ Called(scrape_zillow(ad_payload))

ScrapeRedfin ==
  /\ ad_pc = "call" /\ ad_source = "redfin"
  /\ Called(scrape_redfin(ad_payload))

\* the orchestrator variables while an adapter or the normalizer runs alone
OrchOff ==
  /\ OrchInit
  /\ TELEGRAM_CHAT_IDS = <<>>

AdapterInit ==
  /\ ad_source \in {scrapers[i] : i \in 1..Len(scrapers)}
  /\ ad_payload \in Payloads(ad_source)
  /\ ad_result = <<>>
  /\ ad_trace = None
  /\ ad_pc = "call"

InitAdapters == AdapterInit /\ OrchOff /\ NormalizerOff /\ NotifierOff /\ StoreOff /\ OrderOff

NextAdapters ==
  \/ ScrapeRealtor
  \/ ScrapeZillow
  \/ ScrapeRedfin

SpecAdapters == InitAdapters /\ [][NextAdapters]_vars

(***************************************************************************)
(* The adapters on payloads with several raw records, or several cards.    *)
(***************************************************************************)
MaxSiblings == 2   \* raw records in one listing array, cards in one page

\* a page whose embedded JSON holds the listing array, and a page that has
\* only markup; for Redfin the same two, reached after a GIS API answer
\* without homes, and a GIS API answer that holds the array
RecordListPayloads(source) ==
  LET pages ==
        {[response |-> "200", embedded |-> "ok", records |-> r, cards |-> <<>>] :
           r \in SeqsUpTo(RawRecords, MaxSiblings)}
        \cup {[response |-> "200", embedded |-> "absent", records |-> <<>>, cards |-> c] :
                c \in SeqsUpTo(RawCards, MaxSiblings)}
      no_page == [response |-> "URLError", embedded |-> "absent",
                  records |-> <<>>, cards |-> <<>>]
  IN  IF source = "redfin"
        THEN {[api |-> [response |-> "200", body |-> "ok", homes |-> <<>>], page |-> pg] :
                pg \in pages}
             \cup {[api |-> [response |-> "200", body |-> "ok", homes |-> h],
                    page |-> no_page] : h \in SeqsUpTo(RawRecords, MaxSiblings)}
        ELSE pages

RecordListInit ==
  /\ ad_source \in {scrapers[i] : i \in 1..Len(scrapers)}
  /\ ad_payload \in RecordListPayloads(ad_source)
  /\ ad_result = <<>>
  /\ ad_trace = None
  /\ ad_pc = "call"

InitRecordLists ==
  RecordListInit /\ OrchOff /\ NormalizerOff /\ NotifierOff /\ StoreOff /\ OrderOff

SpecRecordLists == InitRecordLists /\ [][NextAdapters]_vars

(***************************************************************************)
(* The adapters on pages of markup with many property cards.               *)
(***************************************************************************)
MaxCards == 22   \* property cards in one page

\* lists of cards: n cards that read "5 Oak St" and "$6,500", all of them or
\* all but one, which is any other card
CardLists ==
  LET usual == [address |-> Str("5 Oak St"), price |-> Num(6500)]
  IN  UNION {{[i \in 1..n |-> usual]}
             \cup {[i \in 1..n |-> IF i = k THEN odd ELSE usual] :
                     k \in 1..n, odd \in RawCards \ {usual}} : n \in 0..MaxCards}

\* a page without embedded JSON, which leaves the markup scan; for Redfin it
\* is reached after a GIS API answer without homes
CardListPayloads(source) ==
  LET pages == {[response |-> "200", embedded |-> "absent", records |-> <<>>,
                 cards |-> c] : c \in CardLists}
  IN  IF source = "redfin"
        THEN {[api |-> [response |-> "200", body |-> "ok", homes |-> <<>>], page |-> pg] :
                pg \in pages}
        ELSE pages

CardListInit ==
  /\ ad_source \in {scrapers[i] : i \in 1..Len(scrapers)}
  /\ ad_payload \in CardListPayloads(ad_source)
  /\ ad_result = <<>>
  /\ ad_trace = None
  /\ ad_pc = "call"

InitCardLists ==
  CardListInit /\ OrchOff /\ NormalizerOff /\ NotifierOff /\ StoreOff /\ OrderOff

SpecCardLists == InitCardLists /\ [][NextAdapters]_vars

(***************************************************************************)
(* models.normalize_address on two phrasings of one postal address.        *)
(***************************************************************************)
Streets == {<<"5", " ", "O", "a", "k", " ", "A", "v", "e">>,
            <<"1", "2", " ", "N", " ", "M", "a", "i", "n", " ", "S", "t">>,
            <<"7", " ", "E", "l", "m">>}
UnitWords == {<<"A", "p", "t">>,
              <<"a", "p", "t">>,
              <<"A", "P", "T">>,
              <<"A", "p", "a", "r", "t", "m", "e", "n", "t">>,
              <<"S", "t", "e">>,
              <<"S", "u", "i", "t", "e">>,
              <<"U", "n", "i", "t">>,
              <<"u", "n", "i", "t">>}
UnitNumbers == {<<"2">>, <<"1", "0">>}
Towns == { <<<<"L", "a", "r", "g", "o">>, <<"F", "L">>, <<"3", "3", "7", "7", "0">>>>,
           <<<<"S", "t", " ", "P", "e", "t", "e", "r", "s", "b", "u", "r", "g">>, <<"F", "L">>, <<"3", "3", "7", "0", "1">>>> }

\* a street with its unit written with a unit word, and with '#'
UnitPairs ==
  {[kind |-> "unit",
    first |-> <<s \o <<" ">> \o w \o <<" ">> \o n, town[1], town[2], town[3]>>,
    second |-> <<s \o <<" ", "#">> \o n, town[1], town[2], town[3]>>] :
     s \in Streets, w \in UnitWords, n \in UnitNumbers, town \in Towns}

\* the abbreviations of the two tables of normalize_address with the full word
\* each one stands for
Abbreviations ==
  {
    <<<<"n">>, <<"n", "o", "r", "t", "h">>>>,
    <<<<"s">>, <<"s", "o", "u", "t", "h">>>>,
    <<<<"e">>, <<"e", "a", "s", "t">>>>,
    <<<<"w">>, <<"w", "e", "s", "t">>>>,
    <<<<"n", "e">>, <<"n", "o", "r", "t", "h", "e", "a", "s", "t">>>>,
    <<<<"n", "w">>, <<"n", "o", "r", "t", "h", "w", "e", "s", "t">>>>,
    <<<<"s", "e">>, <<"s", "o", "u", "t", "h", "e", "a", "s", "t">>>>,
    <<<<"s", "w">>, <<"s", "o", "u", "t", "h", "w", "e", "s", "t">>>>,
    <<<<"s", "t">>, <<"s", "t", "r", "e", "e", "t">>>>,
    <<<<"a", "v", "e">>, <<"a", "v", "e", "n", "u", "e">>>>,
    <<<<"a", "v">>, <<"a", "v", "e", "n", "u", "e">>>>,
    <<<<"b", "l", "v", "d">>, <<"b", "o", "u", "l", "e", "v", "a", "r", "d">>>>,
    <<<<"d", "r">>, <<"d", "r", "i", "v", "e">>>>,
    <<<<"r", "d">>, <<"r", "o", "a", "d">>>>,
    <<<<"l", "n">>, <<"l", "a", "n", "e">>>>,
    <<<<"c", "t">>, <<"c", "o", "u", "r", "t">>>>,
    <<<<"c", "i", "r">>, <<"c", "i", "r", "c", "l", "e">>>>,
    <<<<"p", "l">>, <<"p", "l", "a", "c", "e">>>>,
    <<<<"p", "k", "w", "y">>, <<"p", "a", "r", "k", "w", "a", "y">>>>,
    <<<<"p", "k", "y">>, <<"p", "a", "r", "k", "w", "a", "y">>>>,
    <<<<"h", "w", "y">>, <<"h", "i", "g", "h", "w", "a", "y">>>>,
    <<<<"t", "e", "r">>, <<"t", "e", "r", "r", "a", "c", "e">>>>,
    <<<<"t", "e", "r", "r">>, <<"t", "e", "r", "r", "a", "c", "e">>>>
  }
\* what stands before and after the abbreviation in the address line: blanks,
\* a hyphen, or one of the characters normalize_address deletes
Contexts ==
  {
    <<<<"1", "2", " ">>, <<" ", "M", "a", "i", "n">>>>,
    <<<<"5", " ", "O", "a", "k", " ">>, <<>>>>,
    <<<<"5", " ", "O", "a", "k", " ">>, <<".">>>>,
    <<<<"5", " ", "O", "a", "k", " ">>, <<",", " ", "U", "n", "i", "t", " ", "2">>>>,
    <<<<"5", " ", "O", "a", "k", "-">>, <<"-", "B">>>>,
    <<<<"5", " ", "O", "a", "k", " ">>, <<".", "B">>>>,
    <<<<"5", " ", "O", "a", "k", " ">>, <<",", "A", "p", "t", " ", "2">>>>,
    <<<<"5", " ", "O", "a", "k", "#">>, <<>>>>
  }
\* an address line with an abbreviation as a whole word, and the same line
\* with the full word in its place
AbbrevPairs ==
  LET UpperChar(c) ==
        IF \E i \in 1..26 : LowerLetters[i] = c
          THEN UpperLetters[CHOOSE i \in 1..26 : LowerLetters[i] = c]
          ELSE c
      Upper(s) == [i \in 1..Len(s) |-> UpperChar(s[i])]
      Capitalize(s) == [i \in 1..Len(s) |-> IF i = 1 THEN UpperChar(s[i]) ELSE s[i]]
      LetterCases(s) == {s, Upper(s), Capitalize(s)}
      AbbrevForms ==
        UNION {{<<w, a[2]>> : w \in LetterCases(a[1])} : a \in Abbreviations}
      town == <<<<"L", "a", "r", "g", "o">>, <<"F", "L">>, <<"3", "3", "7", "7", "0">>>>
  IN {[kind |-> "abbrev", before |-> c[1], abbr |-> a[1], after |-> c[2],
       first |-> <<c[1] \o a[1] \o c[2], town[1], town[2], town[3]>>,
       second |-> <<c[1] \o a[2] \o c[2], town[1], town[2], town[3]>>] :
        c \in Contexts, a \in AbbrevForms}

NormalizePair ==
  /\ nm_pc = "call"
  /\ nm_key' = <<normalize_address(nm_in.first[1], nm_in.first[2],
                                   nm_in.first[3], nm_in.first[4]),
                 normalize_address(nm_in.second[1], nm_in.second[2],
                                   nm_in.second[3], nm_in.second[4])>>
  /\ nm_pc' = "done"
  /\ UNCHANGED <<nm_in, orchVars, adVars, ntVars, dbVars, odVars>>

NormalizerInit ==
  /\ nm_in \in UnitPairs \cup AbbrevPairs
  /\ nm_key = <<>>
  /\ nm_pc = "call"

InitNormalizer == NormalizerInit /\ OrchOff /\ AdapterOff /\ NotifierOff /\ StoreOff /\ OrderOff

NextNormalizer == NormalizePair

SpecNormalizer == InitNormalizer /\ [][NextNormalizer]_vars

(***************************************************************************)
(* One new listing of run_scan: send_listing_with_photo, then mark_as_seen.*)
(***************************************************************************)
MaxRecipients == 2   \* configured Telegram recipients

\* send_listing_with_photo(listing), main.py line 60
SendListingWithPhoto ==
  /\ nt_pc = "send"
  /\ nt_sent' = send_listing_with_photo(nt_listing, nt_chat_ids,
                                        nt_answers.photo, nt_answers.text)
  /\ nt_pc' = "mark"
  /\ UNCHANGED <<nt_listing, nt_chat_ids, nt_answers, nt_seen, orchVars, adVars, nmVars, dbVars, odVars>>

\* mark_as_seen(...), main.py lines 66-72
MarkAsSeen ==
  /\ nt_pc = "mark"
  /\ nt_seen' = mark_as_seen(nt_seen, normalized_address(nt_listing), nt_listing.address,
                             nt_listing.price, nt_listing.source, nt_listing.url, 1)
  /\ nt_pc' = "done"
  /\ UNCHANGED <<nt_listing, nt_chat_ids, nt_answers, nt_sent, orchVars, adVars, nmVars, dbVars, odVars>>

NotifierInit ==
  /\ nt_listing \in {Listing(SitePage("realtor")[i], "realtor") :
                       i \in 1..Len(SitePage("realtor"))}
  /\ nt_chat_ids \in {[i \in 1..n |-> i] : n \in 0..MaxRecipients}
  /\ nt_answers \in [photo : [1..Len(nt_chat_ids) -> Answers],
                     text : [1..Len(nt_chat_ids) -> Answers]]
  /\ nt_sent = None
  /\ nt_seen = <<>>
  /\ nt_pc = "send"

InitNotifier == NotifierInit /\ OrchOff /\ AdapterOff /\ NormalizerOff /\ StoreOff /\ OrderOff

NextNotifier ==
  \/ SendListingWithPhoto
  \/ MarkAsSeen

SpecNotifier == InitNotifier /\ [][NextNotifier]_vars

(***************************************************************************)
(* db.mark_as_seen called any number of times on one database.             *)
(***************************************************************************)
MaxCalls == 3   \* calls of mark_as_seen

\* mark_as_seen(normalized_address, original_address, price, source, url);
\* now = datetime.utcnow(), later at every call
MarkAsSeenCall ==
  /\ db_last.t < MaxCalls
  /\ \E key \in Keys, original_address \in {"5 Oak St", "5 oak Street"},
        price \in {3000, 3200}, source \in {"realtor", "zillow"} :
       LET t == db_last.t + 1
       IN  /\ db_table' = mark_as_seen(db_table, key, original_address, price,
                                       source, "u1", t)
           /\ db_last' = [key |-> key, original_address |-> original_address,
                          price |-> price, source |-> source, t |-> t]
           /\ db_marked' = db_marked \cup {key}
  /\ db_prev' = db_table
  /\ UNCHANGED <<orchVars, adVars, nmVars, ntVars, odVars>>

StoreInit ==
  /\ db_table = <<>>
  /\ db_prev = <<>>
  /\ db_last = [key |-> None, original_address |-> "", price |-> 0,
                source |-> "", t |-> 0]
  /\ db_marked = {}

InitStore == StoreInit /\ OrchOff /\ AdapterOff /\ NormalizerOff /\ NotifierOff /\ OrderOff

NextStore == MarkAsSeenCall

SpecStore == InitStore /\ [][NextStore]_vars

(***************************************************************************)
(* main.run_scan as a function of the order of its scrapers list.          *)
(***************************************************************************)
\* lines 41-48: the scrapers are called in list order
RECURSIVE scrape_all(_, _, _)
scrape_all(order, outs, listings) ==
  IF order = <<>> THEN listings
  ELSE scrape_all(Tail(order), outs, extend_listings(listings, outs[Head(order)]))

\* lines 53-73: the loop over all_listings from position i on
RECURSIVE process_listings(_, _, _, _, _)
process_listings(listings, i, table, count, t) ==
  IF i > Len(listings) THEN [new_count |-> count, seen_listings |-> table]
  ELSE IF is_new_listing(table, normalized_address(listings[i]))
    THEN process_listings(listings, i + 1,
           mark_as_seen(table, normalized_address(listings[i]), listings[i].address,
                        listings[i].price, listings[i].source, listings[i].url, t),
           count + 1, t + 1)
  ELSE process_listings(listings, i + 1, table, count, t)

run_scan(order, outs, table) ==
  process_listings(scrape_all(order, outs, <<>>), 1, table, 0, 1)

\* the orders the scrapers list can be written in
Orders ==
  {o \in [1..Len(scrapers) -> {scrapers[i] : i \in 1..Len(scrapers)}] :
     \A i, j \in 1..Len(scrapers) : i # j => o[i] # o[j]}

\* the table a scan starts with: empty, or left by an earlier scan that saw the
\* second house at realtor
Stores ==
  {<<>>,
   process_listings(<<Listing(SitePage("realtor")[2], "realtor")>>, 1, <<>>, 0, 0).seen_listings}

RunScanInOrder ==
  /\ od_pc = "call"
  /\ od_order' \in Orders
  /\ od_result' = run_scan(od_order', od_outcomes, od_store)
  /\ od_pc' = "done"
  /\ UNCHANGED <<od_outcomes, od_store, orchVars, adVars, nmVars, ntVars, dbVars>>

OrderInit ==
  /\ od_outcomes \in [{scrapers[i] : i \in 1..Len(scrapers)} ->
                        UNION {ScraperOutcomes(scrapers[i]) : i \in 1..Len(scrapers)}]
  /\ \A src \in DOMAIN od_outcomes : od_outcomes[src] \in ScraperOutcomes(src)
  /\ od_store \in Stores
  /\ od_order = scrapers
  /\ od_result = None
  /\ od_pc = "call"

InitOrder == OrderInit /\ OrchOff /\ AdapterOff /\ NormalizerOff /\ NotifierOff /\ StoreOff

NextOrder == RunScanInOrder

SpecOrder == InitOrder /\ [][NextOrder]_vars

(***************************************************************************)
(* Properties of the orchestrator (specification Spec).                    *)
(***************************************************************************)
KeysOf(listings) == {normalized_address(listings[i]) : i \in 1..Len(listings)}
Count(seq, x) == Cardinality({i \in 1..Len(seq) : seq[i] = x})

\* the outputs of the scraper calls that returned, concatenated in call order
RECURSIVE Aggregate(_)
Aggregate(outs) ==
  IF outs = <<>> THEN <<>>
  ELSE (IF Head(outs).raised THEN <<>> ELSE Head(outs).listings) \o Aggregate(Tail(outs))

\* the scan ran to its return statement
ScanEnded == pc = "returned"

\* C1's case: the store was empty when the scan started, and two adapters
\* returned one Listing each, under the same key
SameKeyFromTwoAdapters ==
  /\ store_at_start = <<>>
  /\ Len(all_listings) = 2
  /\ all_listings[1].source # all_listings[2].source
  /\ normalized_address(all_listings[1]) = normalized_address(all_listings[2])

\* C1: a scan over an empty Seen-Store in which two adapters each return one
\* Listing with the same Normalized Address Key invokes the Notifier exactly
\* once for that key and ends with exactly one Seen-Store entry for it.
C1_NotifyOncePersistOnce ==
  (ScanEnded /\ SameKeyFromTwoAdapters) =>
     LET k == normalized_address(all_listings[1])
     IN  /\ Count(sent_in_scan, k) = 1
         /\ DOMAIN seen_listings = {k}

C1_Witness ==
  /\ ScanEnded
  /\ SameKeyFromTwoAdapters
  /\ all_listings[1].address # all_listings[2].address

\* C2: novelty monotonicity: once a key is recorded in the Seen-Store, no
\* later step of any scan invokes the Notifier for that key.
C2_NoNotifyOnceSeen ==
  [][\A k \in Keys : k \in DOMAIN seen_listings => notified'[k] = notified[k]]_vars

\* a second scan has passed over a Listing whose key the store already held
C2_Witness ==
  /\ ScanEnded
  /\ scans >= 2
  /\ \E i \in 1..Len(all_listings) :
       /\ normalized_address(all_listings[i]) \in DOMAIN store_at_start
       /\ notified[normalized_address(all_listings[i])] = 1

\* C3 (as claimed): when the store holds key k at price p and a scan
\* aggregates a Listing with key k at another price p', the scan sends no
\* notification for k and ends with price p' and a later last-seen time
\* stored for k.
C3_PriceRefreshedOnResighting ==
  ScanEnded =>
    \A i \in 1..Len(all_listings) :
      LET k == normalized_address(all_listings[i])
      IN  ( /\ k \in DOMAIN store_at_start
            /\ all_listings[i].price # store_at_start[k].price
            /\ \A j \in 1..Len(all_listings) :
                 j # i => normalized_address(all_listings[j]) # k )
          => /\ Count(sent_in_scan, k) = 0
             /\ seen_listings[k].price = all_listings[i].price
             /\ seen_listings[k].last_seen_at > store_at_start[k].last_seen_at

\* C4: a new Listing whose notification reported failure is still written to
\* the Seen-Store in the same scan: once the scan is past the record step of
\* that Listing, and when it ends, the key is in the store.
C4_RecordedDespiteNotifyFailure ==
  \A k \in failed_in_scan :
    \/ k \in DOMAIN seen_listings
    \/ /\ pc \in {"mark", "interrupted", "crashed"}
       /\ listing_idx <= Len(all_listings)
       /\ normalized = k
       /\ new_count = Len(sent_in_scan) - 1

\* a scan ended after a notification that failed for every recipient
C4_Witness ==
  /\ ScanEnded
  /\ failed_in_scan # {}
  /\ TELEGRAM_CHAT_IDS # <<>>
  /\ failed_in_scan \subseteq DOMAIN seen_listings

\* C5: partial-failure tolerance: the aggregate list is the concatenation of
\* the outputs of the adapters that returned, whatever the other adapters
\* did, every key of it is in the Seen-Store when the scan ends, and the scan
\* returns the number of keys of that union that were new.
C5_PartialFailureTolerance ==
  /\ Running \/ ScanEnded => all_listings = Aggregate(outcomes)
  /\ ScanEnded =>
       /\ KeysOf(Aggregate(outcomes)) \subseteq DOMAIN seen_listings
       /\ new_count =
            Cardinality(KeysOf(Aggregate(outcomes)) \ DOMAIN store_at_start)

\* a scan ended in which the first adapter raised, the second returned
\* nothing and the third returned a new Listing
C5_Witness ==
  /\ ScanEnded
  /\ outcomes[1].raised
  /\ ~outcomes[2].raised /\ outcomes[2].listings = <<>>
  /\ outcomes[3].listings # <<>>
  /\ new_count = 1

\* C6 (as claimed): the Notifier is invoked at most once per key, also when
\* scans are interrupted between a Listing's notify and record steps.
C6_AtMostOnceEver == \A k \in Keys : notified[k] <= 1

\* C6 (amended): the Notifier is invoked for a key at most once, plus once
\* for every scan stopped between that key's notify and record steps, by a
\* shutdown signal or by an error of the Seen-Store.
C6_AtMostOncePerRecordedNotify == \A k \in Keys : notified[k] <= 1 + cut_short[k]

\* a key notified, the scan interrupted before recording it, and the key
\* notified again and recorded by the next scan
C6_Witness ==
  \E k \in Keys :
    /\ cut_short[k] = 1
    /\ notified[k] = 2
    /\ k \in DOMAIN seen_listings

\* C7: idempotence: a scan that follows a completed scan and receives the
\* same Listings returns 0, sends no notification and adds no store entry.
C7_RescanIsIdempotent ==
  (ScanEnded /\ prev_scan.completed /\ all_listings = prev_scan.listings) =>
     /\ new_count = 0
     /\ sent_in_scan = <<>>
     /\ DOMAIN seen_listings = DOMAIN store_at_start

C7_Witness ==
  /\ ScanEnded
  /\ prev_scan.completed
  /\ all_listings = prev_scan.listings
  /\ Len(all_listings) >= 2

\* C8: the value run_scan returns is the number of distinct keys of the
\* aggregate list that were absent from the Seen-Store when the scan started,
\* the number of Notifier invocations of the scan, and the number of store
\* entries the scan created.
C8_ReturnCountsNewKeys ==
  ScanEnded =>
    /\ new_count = Cardinality(KeysOf(all_listings) \ DOMAIN store_at_start)
    /\ new_count = Len(sent_in_scan)
    /\ new_count = Cardinality(DOMAIN seen_listings \ DOMAIN store_at_start)

\* a scan that returned 1 for three Listings: one key new, one already seen
C8_Witness ==
  /\ ScanEnded
  /\ new_count = 1
  /\ Len(all_listings) = 3
  /\ store_at_start # <<>>


(***************************************************************************)
(* Properties of the adapters (specification SpecAdapters).                *)
(***************************************************************************)
\* C9 (as claimed): filter enforcement: whatever the upstream payload holds,
\* no Listing an adapter returns, from either strategy, has a sqft that is
\* present and below MIN_SQFT or a price above MAX_RENT.
C9_FiltersEnforced ==
  ad_pc = "done" =>
    \A i \in 1..Len(ad_result) :
      /\ ~(ad_result[i].sqft # None /\ ad_result[i].sqft.v < MIN_SQFT)
      /\ ad_result[i].price <= MAX_RENT

(***************************************************************************)
(* Properties of normalize_address (specification SpecNormalizer).         *)
(***************************************************************************)
\* C10 (as claimed): unit folding: a street written with 'Apt n' (or
\* 'Apartment', 'Ste', 'Suite', 'Unit') and the same street written with '#n'
\* produce the same key.
C10_UnitFolding ==
  (nm_pc = "done" /\ nm_in.kind = "unit") => nm_key[1] = nm_key[2]

\* the abbreviation of the pair stands as a whole word in the address line as
\* written: no letter, digit or underscore touches it
WholeWordAsWritten ==
  /\ nm_in.before = <<>> \/ ~IsWordChar(nm_in.before[Len(nm_in.before)])
  /\ nm_in.after = <<>> \/ ~IsWordChar(nm_in.after[1])
\* ... and it still does once the characters '.', ',' and '#' are deleted
WholeWordAfterPunctuation ==
  LET b == RemovePunctuation(nm_in.before)
      a == RemovePunctuation(nm_in.after)
  IN /\ b = <<>> \/ ~IsWordChar(b[Len(b)])
     /\ a = <<>> \/ ~IsWordChar(a[1])

\* C11 (as claimed): abbreviation equivalence: for any address, replacing a
\* whole-word directional or street-type abbreviation, in any letter case, by
\* its full word leaves the key unchanged.
C11_AbbreviationEquivalence ==
  (nm_pc = "done" /\ nm_in.kind = "abbrev" /\ WholeWordAsWritten)
    => nm_key[1] = nm_key[2]

\* C11 (amended): replacing a whole-word directional or street-type
\* abbreviation, in any letter case, by its full word leaves the key
\* unchanged, provided the abbreviation is still a whole word once the
\* characters '.', ',' and '#' have been deleted from the address.
C11_AbbreviationEquivalenceWhenStillWholeWord ==
  (nm_pc = "done" /\ nm_in.kind = "abbrev" /\ WholeWordAsWritten
     /\ WholeWordAfterPunctuation)
    => nm_key[1] = nm_key[2]

\* an upper-case abbreviation followed by a period was folded onto its full
\* word
C11_Witness ==
  /\ nm_pc = "done"
  /\ nm_in.kind = "abbrev"
  /\ nm_in.abbr = <<"B", "L", "V", "D">>
  /\ nm_in.after = <<".">>
  /\ WholeWordAsWritten /\ WholeWordAfterPunctuation
  /\ nm_key[1] = nm_key[2]
  /\ nm_in.first # nm_in.second

(***************************************************************************)
(* Further properties of the adapters (specification SpecAdapters).        *)
(***************************************************************************)
\* C12: an adapter entry point never raises to its caller: whether the
\* request meets a transport error or an HTTP error, the JSON is malformed or
\* has an unexpected shape, the call returns a list of Listings, which may be
\* empty.
C12_EntryPointNeverRaises ==
  ad_pc = "done" =>
    /\ ~ad_trace.raised
    /\ \A i \in 1..Len(ad_result) : ad_result[i].source = ad_source

\* scrape_zillow found a number where the listing array should be, which
\* raises in _parse_listings, and returned the empty list
C12_Witness ==
  /\ ad_pc = "done"
  /\ ad_source = "zillow"
  /\ ad_payload.embedded = "bad_list"
  /\ ~ad_trace.raised
  /\ ad_result = <<>>

(***************************************************************************)
(* Properties of the Notifier (specification SpecNotifier).                *)
(***************************************************************************)
Succeeded(answers) == \E i \in 1..Len(nt_chat_ids) : answers[i] = "ok"
PhotoFailed ==
  /\ nt_pc \in {"mark", "done"}
  /\ Truthy(nt_listing.photo_url)
  /\ nt_sent.photo.called /\ ~nt_sent.photo.ok

\* C13: when the photo of a listing with a photo URL is delivered to nobody,
\* send_listing_with_photo sends the text-only alert to the same recipients
\* and returns success exactly when the text reached at least one of them;
\* run_scan records the listing as seen whichever way the send ended.
C13_PhotoFailureFallsBackToText ==
  /\ PhotoFailed =>
       /\ nt_sent.text.called
       /\ nt_sent.text.attempted = nt_sent.photo.attempted
       /\ nt_sent.text.attempted = nt_chat_ids
       /\ nt_sent.ok = Succeeded(nt_answers.text)
  /\ nt_pc = "done" => normalized_address(nt_listing) \in DOMAIN nt_seen

\* the photo reached neither of two recipients, the text reached the second,
\* and the listing was recorded
C13_Witness ==
  /\ PhotoFailed
  /\ nt_pc = "done"
  /\ Len(nt_chat_ids) = 2
  /\ nt_answers.text[1] = "HTTPError" /\ nt_answers.text[2] = "ok"
  /\ nt_sent.ok
  /\ normalized_address(nt_listing) \in DOMAIN nt_seen

\* C14: a call of send_telegram_message or send_photo_with_caption makes one
\* request for every configured recipient, in order and once each, whatever
\* the answers for the earlier recipients were, and returns true if and only
\* if at least one recipient's request succeeded.
C14_EveryRecipientAttemptedOnce ==
  nt_pc \in {"mark", "done"} =>
    /\ nt_sent.photo.called =>
         /\ nt_sent.photo.attempted = nt_chat_ids
         /\ nt_sent.photo.ok <=> Succeeded(nt_answers.photo)
    /\ nt_sent.text.called =>
         /\ nt_sent.text.attempted = nt_chat_ids
         /\ nt_sent.text.ok <=> Succeeded(nt_answers.text)

\* both senders ran for two recipients; the first request of each failed (an
\* exception for the photo, an API error for the text) and the second was made
C14_Witness ==
  /\ nt_pc = "mark"
  /\ Len(nt_chat_ids) = 2
  /\ nt_sent.photo.called /\ nt_sent.text.called
  /\ nt_answers.photo[1] = "Exception" /\ nt_answers.photo[2] = "not_ok"
  /\ nt_answers.text[1] = "not_ok" /\ nt_answers.text[2] = "ok"
  /\ nt_sent.text.attempted = <<1, 2>>
  /\ nt_sent.text.ok /\ ~nt_sent.photo.ok

(***************************************************************************)
(* Properties of run_loop (specification Spec).                            *)
(***************************************************************************)
\* C15 (as claimed): in run_loop nothing but an external interrupt stops the
\* scanning: whatever a scan meets (adapter failures, notification failures,
\* a Seen-Store read or write error), the process stays alive for the next
\* scan.
C15_LoopStopsOnlyOnInterrupt == loop_mode => pc # "crashed"

(***************************************************************************)
(* Properties of the Seen-Store (specification SpecStore).                 *)
(***************************************************************************)
\* C16: mark_as_seen is an upsert keyed on the Normalized Address Key: after
\* any sequence of calls the table holds one entry for every key that was
\* marked and no other; a call on a key already there sets its price and
\* last-seen time to those of the call and leaves its first-seen time, and
\* every other entry, as they were.
C16_MarkAsSeenIsUpsert ==
  /\ DOMAIN db_table = db_marked
  /\ db_last.t > 0 =>
       /\ \A k \in DOMAIN db_prev : k # db_last.key => db_table[k] = db_prev[k]
       /\ db_table[db_last.key].price = db_last.price
       /\ db_table[db_last.key].last_seen_at = db_last.t
       /\ db_last.key \in DOMAIN db_prev =>
            db_table[db_last.key].first_seen_at = db_prev[db_last.key].first_seen_at
       /\ db_last.key \notin DOMAIN db_prev =>
            db_table[db_last.key].first_seen_at = db_last.t

\* a third call, on a key inserted by the first, changed its price and
\* last-seen time and kept its first-seen time, next to another key's entry
C16_Witness ==
  /\ db_last.t = 3
  /\ Cardinality(DOMAIN db_table) = 2
  /\ db_last.key \in DOMAIN db_prev
  /\ db_prev[db_last.key].first_seen_at = 1
  /\ db_table[db_last.key].first_seen_at = 1
  /\ db_table[db_last.key].last_seen_at = 3
  /\ db_table[db_last.key].price # db_prev[db_last.key].price

(***************************************************************************)
(* Properties of run_scan under reordering (specification SpecOrder).      *)
(***************************************************************************)
\* what the claim compares of a table: its keys with the price, source,
\* address and URL stored for each
Contents(table) ==
  [k \in DOMAIN table |->
     <<table[k].price, table[k].source, table[k].original_address, table[k].url>>]

\* C17 (as claimed): the order in which run_scan calls the adapters is
\* irrelevant: with the same adapter outputs and the same Seen-Store at the
\* start, every order of the scrapers list gives the count and the final
\* Seen-Store contents (keys, price, source, address, URL) that the order
\* realtor, zillow, redfin gives.
C17_AdapterOrderIrrelevant ==
  od_pc = "done" =>
    LET reference == run_scan(scrapers, od_outcomes, od_store)
    IN  /\ od_result.new_count = reference.new_count
        /\ Contents(od_result.seen_listings) = Contents(reference.seen_listings)

\* C18 (as claimed): every Listing an adapter returns, from either strategy,
\* has a price that is present and strictly positive.
C18_PricePositive ==
  ad_pc = "done" => \A i \in 1..Len(ad_result) : ad_result[i].price > 0

\* C19 (as claimed): every Listing an adapter returns, from either strategy,
\* has a non-empty street address and a non-empty city.
C19_StreetAndCityNonEmpty ==
  ad_pc = "done" =>
    \A i \in 1..Len(ad_result) : ad_result[i].address # "" /\ ad_result[i].city # ""

\* the search page of the call, and whether the call got as far as looking
\* for the embedded payload in it
SearchPage == IF ad_source = "redfin" THEN ad_payload.page ELSE ad_payload
PreferredTried ==
  /\ SearchPage.response = "200"
  /\ ad_source = "redfin" => redfin_scrape_via_gis_api(ad_payload.api).listings = <<>>

\* C20 (as claimed): strategy cascade: whenever the embedded payload does not
\* decode, has an unexpected shape or yields no Listing, the markup scan is
\* run in the same call; it is never run when the embedded payload yielded at
\* least one Listing.
C20_StrategyCascade ==
  (ad_pc = "done" /\ PreferredTried) =>
    /\ ( \/ SearchPage.embedded \in {"malformed", "bad_path", "bad_list"}
         \/ (SearchPage.embedded = "ok" /\ ad_trace.preferred = <<>>) )
       => ad_trace.fallback
    /\ ad_trace.preferred # <<>> => ~ad_trace.fallback

(***************************************************************************)
(* Properties of the adapters on record lists (specification               *)
(* SpecRecordLists).                                                       *)
(***************************************************************************)
\* a raw record, or a card, without a resolvable street address or price
Defective(r) ==
  IF "street" \in DOMAIN r
    THEN ~Truthy(r.street) \/ ~Truthy(r.price)
    ELSE r.address = None \/ r.price = None
Sound(r) == ~Defective(r)
\* the payload of the call with the defective records and cards taken out
WithoutDefects ==
  LET clean(pg) == [pg EXCEPT !.records = SelectSeq(@, Sound),
                              !.cards = SelectSeq(@, Sound)]
  IN  IF ad_source = "redfin"
        THEN [api |-> [ad_payload.api EXCEPT !.homes = SelectSeq(@, Sound)],
              page |-> clean(ad_payload.page)]
        ELSE clean(ad_payload)
scrape(source, payload) ==
  CASE source = "realtor" -> scrape_realtor(payload)
    [] source = "zillow" -> scrape_zillow(payload)
    [] source = "redfin" -> scrape_redfin(payload)
\* C21: record-level defects are isolated: the call returns no Listing for a
\* raw record (or card) without a resolvable street address or price, and
\* what it returns for the other records of the payload is what it returns
\* for the payload without the defective ones.
C21_DefectsIsolated ==
  ad_pc = "done" =>
    ad_result = scrape(ad_source, WithoutDefects).listings

\* realtor: a record without price came first in the listing array, and the
\* record after it was returned as a Listing
C21_Witness ==
  /\ ad_pc = "done"
  /\ ad_source = "realtor"
  /\ Len(ad_payload.records) = 2
  /\ ad_payload.records[1].price = None
  /\ Sound(ad_payload.records[2])
  /\ Len(ad_result) = 1
  /\ ad_result[1].price = ad_payload.records[2].price.v

\* the one record of the payload's listing array, when the call parsed that
\* array and it holds one record
TheRecord ==
  IF ad_source = "redfin" THEN ad_payload.api.homes[1] ELSE ad_payload.records[1]
OneRecordParsed ==
  /\ ad_pc = "done"
  /\ IF ad_source = "redfin"
       THEN ad_payload.api.body = "ok" /\ Len(ad_payload.api.homes) = 1
       ELSE ad_payload.embedded = "ok" /\ Len(ad_payload.records) = 1

\* C22 (as claimed): a raw record with a valid street address and price (and
\* a city, and a price within the filter) whose sqft is absent or not
\* coercible to a number yields a Listing with the sqft absent: the value
\* causes no error and the record is not dropped.
C22_UncoercibleOptionalIsAbsent ==
  ( /\ OneRecordParsed
    /\ Truthy(TheRecord.street) /\ Truthy(TheRecord.city)
    /\ TheRecord.price.t = "int" /\ TheRecord.price.v \in 1..MAX_RENT
    /\ TheRecord.sqft = None \/ TheRecord.sqft.t = "str" )
  => /\ ~ad_trace.raised
     /\ Len(ad_result) = 1
     /\ ad_result[1].sqft = None

\* C23 (as claimed): an adapter call makes exactly one outbound HTTP request,
\* whichever strategies it goes through; in particular no request is made a
\* second time.
C23_OneRequestPerInvocation ==
  ad_pc = "done" => Len(ad_trace.requests) = 1

\* the payload of the call with the cards after the twentieth taken off the
\* search page
WithoutLateCards ==
  LET cut(pg) == [pg EXCEPT !.cards = SubSeq(@, 1, IF Len(@) < 20 THEN Len(@) ELSE 20)]
  IN  IF ad_source = "redfin" THEN [ad_payload EXCEPT !.page = cut(@)]
      ELSE cut(ad_payload)

\* C24: when the markup scan of an adapter ran, it looked at the first 20
\* cards of the page and at no other: the call returns at most 20 Listings,
\* and returns what it returns for the page cut after its twentieth card.
C24_FallbackLooksAtFirst20Cards ==
  (ad_pc = "done" /\ ad_trace.fallback)
  => /\ Len(ad_result) <= 20
     /\ ad_result = scrape(ad_source, WithoutLateCards).listings

\* a markup scan of a page with more than 20 cards returned 20 Listings
C24_Witness ==
  /\ ad_pc = "done" /\ ad_trace.fallback
  /\ Len(SearchPage.cards) > 20
  /\ Len(ad_result) = 20

\* the place in the aggregate list of the first Listing with key k
FirstWithKey(k) ==
  CHOOSE i \in 1..Len(all_listings) :
    /\ normalized_address(all_listings[i]) = k
    /\ \A j \in 1..(i - 1) : normalized_address(all_listings[j]) # k

\* the columns of a row that mark_as_seen takes from the Listing
FromListing(row) ==
  <<row.original_address, row.price, row.source, row.url>>

\* C25: of the Listings of one scan that share a key absent from the
\* Seen-Store when the scan started, only the first in aggregate order is
\* handed to the Notifier, once; the address, price, source and URL stored
\* for the key are those of that first Listing and the row is written once,
\* so the later Listings with the key change nothing; a scan that runs to its
\* end has notified and stored every such key.
C25_FirstOfSameKeyWins ==
  /\ pc \in {"notify", "mark"} => listing_idx = FirstWithKey(normalized)
  /\ \A k \in Keys \ DOMAIN store_at_start :
       /\ Count(sent_in_scan, k) <= 1
       /\ k \in DOMAIN seen_listings =>
            LET first == all_listings[FirstWithKey(k)]
            IN  /\ Count(sent_in_scan, k) = 1
                /\ FromListing(seen_listings[k])
                     = <<first.address, first.price, first.source, first.url>>
                /\ seen_listings[k].last_seen_at = seen_listings[k].first_seen_at
       /\ (ScanEnded /\ k \in KeysOf(all_listings)) =>
            Count(sent_in_scan, k) = 1 /\ k \in DOMAIN seen_listings

\* a scan ended in which realtor and zillow reported the same house at two
\* prices, under a key the store did not hold: the row is realtor's
C25_Witness ==
  /\ ScanEnded
  /\ \E i, j \in 1..Len(all_listings) :
       LET k == normalized_address(all_listings[i])
       IN  /\ i < j
           /\ k = normalized_address(all_listings[j])
           /\ k \notin DOMAIN store_at_start
           /\ all_listings[i].price # all_listings[j].price
           /\ all_listings[i].source # all_listings[j].source
           /\ sent_in_scan = <<k>>
           /\ seen_listings[k].price = all_listings[i].price
           /\ seen_listings[k].source = all_listings[i].source

====
